---- MODULE Spec2Model ----
(***************************************************************************)
(* Payme (Paycom) merchant API of src/server.js: the donations and         *)
(* transactions tables, and the JSON-RPC handlers that read and write      *)
(* them.  Every handler is an async function: each `await pool.query` is   *)
(* one atomic step on the database, and other requests run between the     *)
(* steps.  The synchronous code after getTransaction reads the clock       *)
(* (isExpired, now()), so it is a step of its own ("decide"); the other    *)
(* continuations touch only the request's locals and are part of the       *)
(* database step they follow.                                              *)
(***************************************************************************)
EXTENDS Integers, Sequences, FiniteSets, TLC

VARIABLES
  donations,      \* table donations: id -> [amount, state]
  transactions,   \* table transactions: paycom_id -> row
  clock,          \* Date.now()
  ticks,          \* how many times the clock has advanced
  ncalls,         \* how many merchant requests have arrived
  calls           \* the two most recent requests: position, locals, response;
                  \* args is the parameter list of the statement query;
                  \* seq numbers the requests by arrival, prior is the seq of
                  \* the request that had been answered when this one arrived

vars == <<donations, transactions, clock, ticks, ncalls, calls>>

(* ------------------------------ bounds --------------------------------- *)
MaxCalls == 3
MaxSeqCalls == 3
MaxExpiryCalls == 4
MaxPayCalls == 4
MaxTicks == 2

(* ------------------------------ inputs --------------------------------- *)
TxIds == {"t1", "t2"}
DonationIds == {"d1", "d2"}
Amounts == {100, 200}
DonationAmounts == {100}
Reasons == {3, 5}
FromTo == {0, 2}
Procs == {"p1", "p2"}

(* --------------------------- configuration ----------------------------- *)
TRANSACTION_TTL_MS == 12 * 60 * 60 * 1000

ERR ==
  [ AUTH           |-> -32504,
    AMOUNT         |-> -31001,
    NOT_FOUND      |-> -31003,
    CANNOT_PERFORM |-> -31008,
    ACCOUNT        |-> -31050,
    METHOD         |-> -32601 ]

null == <<>>

ok(result) == [type |-> "result", result |-> result]
fail(error) == [type |-> "error", code |-> error]

(* ----------------------------- DB helpers ------------------------------ *)
\* INSERT ... ON CONFLICT (id) DO NOTHING
createDonation(don, donationId, amount) ==
  IF donationId \in DOMAIN don
    THEN don
    ELSE don @@ (donationId :> [amount |-> amount, state |-> 0])

getDonation(don, donationId) ==
  IF donationId \in DOMAIN don THEN don[donationId] ELSE null

\* A faulty saveTransaction: the update path overwrites every column
saveTransaction_replace(txs, tx) ==
  [id \in DOMAIN txs \cup {tx.paycomTxId} |->
     IF id = tx.paycomTxId
       THEN [ donation_id  |-> tx.account,
              amount       |-> tx.amount,
              state        |-> tx.state,
              create_time  |-> tx.create_time,
              perform_time |-> tx.perform_time,
              cancel_time  |-> tx.cancel_time,
              reason       |-> tx.reason ]
       ELSE txs[id]]

\* INSERT ... ON CONFLICT (paycom_id) DO UPDATE SET state, perform_time,
\* cancel_time, reason
saveTransaction(txs, tx) ==
  IF tx.paycomTxId \in DOMAIN txs
    THEN [txs EXCEPT ![tx.paycomTxId] =
            [@ EXCEPT !.state = tx.state,
                      !.perform_time = tx.perform_time,
                      !.cancel_time = tx.cancel_time,
                      !.reason = tx.reason]]
    ELSE txs @@ (tx.paycomTxId :>
            [ donation_id  |-> tx.account,
              amount       |-> tx.amount,
              state        |-> tx.state,
              create_time  |-> tx.create_time,
              perform_time |-> tx.perform_time,
              cancel_time  |-> tx.cancel_time,
              reason       |-> tx.reason ])

rowToTx(paycomTxId, row) ==
  [ paycomTxId   |-> paycomTxId,
    account      |-> row.donation_id,
    amount       |-> row.amount,
    state        |-> row.state,
    create_time  |-> row.create_time,
    perform_time |-> row.perform_time,
    cancel_time  |-> row.cancel_time,
    reason       |-> row.reason ]

getTransaction(txs, paycomTxId) ==
  IF paycomTxId \in DOMAIN txs THEN rowToTx(paycomTxId, txs[paycomTxId]) ELSE null

\* UPDATE donations SET state = $2 WHERE id = $1
setDonationState(don, donationId, state) ==
  IF donationId \in DOMAIN don
    THEN [don EXCEPT ![donationId].state = state]
    ELSE don

\* WHERE create_time >= $1 AND create_time <= $2, with [from || 0, to || now()]
lowerBound(from) == IF from = 0 THEN 0 ELSE from
upperBound(to, now) == IF to = 0 THEN now ELSE to

inRange(txs, lo, hi) ==
  {id \in DOMAIN txs : txs[id].create_time >= lo /\ txs[id].create_time <= hi}

\* ORDER BY create_time ASC: every order of the selected rows that ascends
Orderings(txs, ids) ==
  {s \in [1..Cardinality(ids) -> ids] :
     /\ \A i, j \in 1..Cardinality(ids) : i # j => s[i] # s[j]
     /\ \A i, j \in 1..Cardinality(ids) :
          i < j => txs[s[i]].create_time <= txs[s[j]].create_time}

(* -------------------------- JSON-RPC helpers --------------------------- *)
txResponse(tx) ==
  [ transaction  |-> tx.paycomTxId,
    account      |-> tx.account,
    create_time  |-> tx.create_time,
    perform_time |-> tx.perform_time,
    cancel_time  |-> tx.cancel_time,
    amount       |-> tx.amount,
    state        |-> tx.state,
    reason       |-> tx.reason ]

isExpired(tx, now) == tx.create_time + TRANSACTION_TTL_MS < now

\* A faulty autoCancelExpired: the cancellation carries no reason
autoCancelExpired_noReason(tx, now) ==
  IF tx = null \/ tx.state # 1
    THEN tx
    ELSE [tx EXCEPT !.state = -1, !.cancel_time = now]

\* the object autoCancelExpired saves and returns
autoCancelExpired(tx, now) ==
  IF tx = null \/ tx.state # 1
    THEN tx
    ELSE [tx EXCEPT !.state = -1, !.cancel_time = now, !.reason = <<4>>]

(* ------------------------------ requests ------------------------------- *)
Methods ==
  { "CheckPerformTransaction", "CreateTransaction", "PerformTransaction",
    "CancelTransaction", "CheckTransaction", "GetStatement" }

IdleCall ==
  [ seq |-> 0, prior |-> 0, pc |-> "idle", auth |-> TRUE, method |-> "",
    id |-> "", donationId |-> "", amount |-> 0, reason |-> 0,
    from |-> 0, to |-> 0, args |-> <<>>, tx |-> null, resp |-> null ]

InFlight(p) == calls[p].pc \notin {"idle", "done"}
Done(p) == calls[p].pc = "done"
Other(p) == IF p = "p1" THEN "p2" ELSE "p1"

\* the slot a new request is recorded in: a free one, the older of two
Slot ==
  IF InFlight("p1") THEN "p2"
  ELSE IF InFlight("p2") THEN "p1"
  ELSE IF calls["p2"].seq < calls["p1"].seq THEN "p2" ELSE "p1"

\* the latest request already answered (0: none)
Answered(p) == IF Done(p) THEN calls[p].seq ELSE 0
LastAnswered ==
  IF Answered("p1") > Answered("p2") THEN Answered("p1") ELSE Answered("p2")

Request(method, id, donationId, amount, reason, from, to) ==
  [ seq |-> ncalls + 1, prior |-> 0, pc |-> "idle", auth |-> TRUE,
    method |-> method,
    id |-> id, donationId |-> donationId, amount |-> amount,
    reason |-> reason, from |-> from, to |-> to, args |-> <<>>,
    tx |-> null, resp |-> null ]

\* the requests a caller sends, over both transaction ids and both donations
Requests ==
       {Request("CheckPerformTransaction", "", "d1", a, 0, 0, 0) : a \in Amounts}
  \cup {Request("CreateTransaction", "t1", "d1", a, 0, 0, 0) : a \in Amounts}
  \cup {Request("CreateTransaction", "t1", "d2", 100, 0, 0, 0),
        Request("CreateTransaction", "t2", "d1", 100, 0, 0, 0)}
  \cup {Request("PerformTransaction", t, "", 0, 0, 0, 0) : t \in TxIds}
  \cup {Request("CancelTransaction", "t1", "", 0, r, 0, 0) : r \in Reasons}
  \cup {Request("CheckTransaction", "t1", "", 0, 0, 0, 0)}
  \cup {Request("GetStatement", "", "", 0, 0, f, t) : f \in FromTo, t \in FromTo}
  \cup {Request("Unknown", "", "", 0, 0, 0, 0)}

\* the requests that race on one transaction id and one donation
RaceRequests ==
       {Request("CheckPerformTransaction", "", "d1", 100, 0, 0, 0)}
  \cup {Request("CreateTransaction", "t1", "d1", a, 0, 0, 0) : a \in Amounts}
  \cup {Request("PerformTransaction", "t1", "", 0, 0, 0, 0)}
  \cup {Request("CancelTransaction", "t1", "", 0, r, 0, 0) : r \in Reasons}
  \cup {Request("CheckTransaction", "t1", "", 0, 0, 0, 0)}
  \cup {Request("GetStatement", "", "", 0, 0, 0, 0)}
  \cup {Request("Unknown", "", "", 0, 0, 0, 0)}

\* the requests around the expiry of one transaction
ExpiryRequests ==
  { Request("CreateTransaction", "t1", "d1", 100, 0, 0, 0),
    Request("PerformTransaction", "t1", "", 0, 0, 0, 0),
    Request("CheckTransaction", "t1", "", 0, 0, 0, 0),
    Request("GetStatement", "", "", 0, 0, 0, 0) }

\* A faulty dispatch: CreateTransaction looks the transaction up without
\* validating the account and the amount first
FirstPc_existenceFirst(method) ==
  CASE method = "CheckPerformTransaction" -> "getDonation"
    [] method \in {"CreateTransaction", "PerformTransaction",
                   "CancelTransaction", "CheckTransaction"} -> "getTransaction"
    [] method = "GetStatement" -> "listTransactions"
    [] OTHER -> "done"

\* the requests that pay one donation through two transactions
PayRequests ==
       {Request("CreateTransaction", t, "d1", 100, 0, 0, 0) : t \in TxIds}
  \cup {Request("PerformTransaction", t, "", 0, 0, 0, 0) : t \in TxIds}
  \cup {Request("GetStatement", "", "", 0, 0, 0, 0)}

FirstPc(method) ==
  CASE method \in {"CheckPerformTransaction", "CreateTransaction"} -> "getDonation"
    [] method \in {"PerformTransaction", "CancelTransaction", "CheckTransaction"}
         -> "getTransaction"
    [] method = "GetStatement" -> "listTransactions"
    [] OTHER -> "done"

Respond(c, resp) == [c EXCEPT !.pc = "done", !.resp = resp]

(* ------------------------------- actions ------------------------------- *)
Init ==
  /\ donations = <<>>
  /\ transactions = <<>>
  /\ clock = 1
  /\ ticks = 0
  /\ ncalls = 0
  /\ calls = [p \in Procs |-> IdleCall]

\* Date.now() moves on, by a millisecond or by the length of the TTL window
Tick ==
  /\ ticks < MaxTicks
  /\ \E d \in {1, TRANSACTION_TTL_MS} : clock' = clock + d
  /\ ticks' = ticks + 1
  /\ UNCHANGED <<donations, transactions, ncalls, calls>>

\* POST /donate and POST /mock-donation-init
Donate(ids) ==
  /\ \E d \in ids, a \in DonationAmounts :
       /\ d \notin DOMAIN donations
       /\ donations' = createDonation(donations, d, a)
  /\ UNCHANGED <<transactions, clock, ticks, ncalls, calls>>

\* A faulty merchantHandler: the request is dispatched whatever
\* requirePaymeAuth returns
merchantHandler_unchecked(req, auth) ==
  IF req.method \in Methods
    THEN [req EXCEPT !.pc = FirstPc(req.method),
                     !.auth = auth,
                     !.args = IF req.method = "GetStatement"
                                THEN <<lowerBound(req.from),
                                       upperBound(req.to, clock)>>
                                ELSE <<>>]
    ELSE Respond([req EXCEPT !.auth = auth], fail(ERR.METHOD))

\* merchantHandler up to the handler's first await
merchantHandler(req, auth) ==
  IF ~auth
    THEN Respond([IdleCall EXCEPT !.seq = req.seq, !.auth = FALSE], fail(ERR.AUTH))
    ELSE IF req.method \in Methods
      THEN [req EXCEPT !.pc = FirstPc(req.method),
                       !.args = IF req.method = "GetStatement"
                                  THEN <<lowerBound(req.from),
                                         upperBound(req.to, clock)>>
                                  ELSE <<>>]
      ELSE Respond(req, fail(ERR.METHOD))

Begin(max, requests) ==
  /\ ncalls < max
  /\ ~InFlight(Slot)
  /\ \E req \in requests, auth \in BOOLEAN :
       /\ calls' = [calls EXCEPT ![Slot] =
            [merchantHandler(req, auth) EXCEPT !.prior = LastAnswered]]
  /\ ncalls' = ncalls + 1
  /\ UNCHANGED <<donations, transactions, clock, ticks>>

\* handleCheckPerform, and handleCreate to its second await
GetDonation(p) ==
  LET c == calls[p]
      donation == getDonation(donations, c.donationId)
  IN
  /\ c.pc = "getDonation"
  /\ calls' = [calls EXCEPT ![p] =
       IF donation = null THEN Respond(c, fail(ERR.ACCOUNT))
       ELSE IF donation.amount # c.amount THEN Respond(c, fail(ERR.AMOUNT))
       ELSE IF c.method = "CheckPerformTransaction"
         THEN Respond(c, ok([allow |-> TRUE]))
       ELSE IF donation.state = 2 THEN Respond(c, fail(ERR.CANNOT_PERFORM))
       ELSE [c EXCEPT !.pc = "getTransaction"]]
  /\ UNCHANGED <<donations, transactions, clock, ticks, ncalls>>

\* let tx = await getTransaction(paycomTxId)
GetTransaction(p) ==
  LET c == calls[p] IN
  /\ c.pc = "getTransaction"
  /\ calls' = [calls EXCEPT ![p] =
       [c EXCEPT !.pc = "decide", !.tx = getTransaction(transactions, c.id)]]
  /\ UNCHANGED <<donations, transactions, clock, ticks, ncalls>>

\* A faulty handleCreate: a repeated CreateTransaction creates the transaction again
handleCreate_again(c, now) ==
  [c EXCEPT !.pc = "saveTransaction",
            !.tx = [ paycomTxId   |-> c.id,
                     account      |-> c.donationId,
                     amount       |-> c.amount,
                     state        |-> 1,
                     create_time  |-> now,
                     perform_time |-> 0,
                     cancel_time  |-> 0,
                     reason       |-> null ]]

\* A faulty handleCreate: the existing transaction is returned without comparing account
\* and amount
handleCreate_anyAccount(c, now) ==
  IF c.tx # null
    THEN IF isExpired(c.tx, now) /\ c.tx.state = 1
      THEN [c EXCEPT !.pc = "saveExpired", !.tx = autoCancelExpired(c.tx, now)]
      ELSE Respond(c, ok(txResponse(c.tx)))
    ELSE handleCreate_again(c, now)

\* handleCreate from `if (tx)` to the await it stops at
handleCreate(c, now) ==
  IF c.tx # null
    THEN IF c.tx.account = c.donationId /\ c.tx.amount = c.amount
      THEN IF isExpired(c.tx, now) /\ c.tx.state = 1
        THEN [c EXCEPT !.pc = "saveExpired", !.tx = autoCancelExpired(c.tx, now)]
        ELSE Respond(c, ok(txResponse(c.tx)))
      ELSE Respond(c, fail(ERR.CANNOT_PERFORM))
    ELSE [c EXCEPT !.pc = "saveTransaction",
                   !.tx = [ paycomTxId   |-> c.id,
                            account      |-> c.donationId,
                            amount       |-> c.amount,
                            state        |-> 1,
                            create_time  |-> now,
                            perform_time |-> 0,
                            cancel_time  |-> 0,
                            reason       |-> null ]]

\* A faulty handlePerform: no early return for a transaction that is already Performed
handlePerform_again(c, now) ==
  IF c.tx = null THEN Respond(c, fail(ERR.NOT_FOUND))
  ELSE IF isExpired(c.tx, now) /\ c.tx.state = 1
    THEN [c EXCEPT !.pc = "saveExpired", !.tx = autoCancelExpired(c.tx, now)]
  ELSE IF c.tx.state = -1 \/ c.tx.state = -2
    THEN Respond(c, fail(ERR.CANNOT_PERFORM))
  ELSE [c EXCEPT !.pc = "saveTransaction",
                 !.tx = [c.tx EXCEPT !.state = 2, !.perform_time = now]]

\* handlePerform from `if (!tx)` to the await it stops at
handlePerform(c, now) ==
  IF c.tx = null THEN Respond(c, fail(ERR.NOT_FOUND))
  ELSE IF isExpired(c.tx, now) /\ c.tx.state = 1
    THEN [c EXCEPT !.pc = "saveExpired", !.tx = autoCancelExpired(c.tx, now)]
  ELSE IF c.tx.state = -1 \/ c.tx.state = -2
    THEN Respond(c, fail(ERR.CANNOT_PERFORM))
  ELSE IF c.tx.state = 2 THEN Respond(c, ok(txResponse(c.tx)))
  ELSE [c EXCEPT !.pc = "saveTransaction",
                 !.tx = [c.tx EXCEPT !.state = 2, !.perform_time = now]]

\* A faulty handleCancel: no early return for a transaction that is already
\* cancelled
handleCancel_again(c, now) ==
  IF c.tx = null THEN Respond(c, fail(ERR.NOT_FOUND))
  ELSE IF isExpired(c.tx, now) /\ c.tx.state = 1
    THEN [c EXCEPT !.pc = "saveExpired", !.tx = autoCancelExpired(c.tx, now)]
  ELSE [c EXCEPT !.pc = "saveTransaction",
                 !.tx = [c.tx EXCEPT !.state = IF c.tx.state = 2 THEN -2 ELSE -1,
                                     !.cancel_time = now,
                                     !.reason = <<c.reason>>]]

\* handleCancel from `if (!tx)` to the await it stops at
handleCancel(c, now) ==
  IF c.tx = null THEN Respond(c, fail(ERR.NOT_FOUND))
  ELSE IF isExpired(c.tx, now) /\ c.tx.state = 1
    THEN [c EXCEPT !.pc = "saveExpired", !.tx = autoCancelExpired(c.tx, now)]
  ELSE IF c.tx.state = -1 \/ c.tx.state = -2
    THEN Respond(c, ok(txResponse(c.tx)))
  ELSE [c EXCEPT !.pc = "saveTransaction",
                 !.tx = [c.tx EXCEPT !.state = IF c.tx.state = 2 THEN -2 ELSE -1,
                                     !.cancel_time = now,
                                     !.reason = <<c.reason>>]]

\* handleCheck from `if (!tx)` to the await it stops at
handleCheck(c, now) ==
  IF c.tx = null THEN Respond(c, fail(ERR.NOT_FOUND))
  ELSE IF isExpired(c.tx, now) /\ c.tx.state = 1
    THEN [c EXCEPT !.pc = "saveExpired", !.tx = autoCancelExpired(c.tx, now)]
  ELSE Respond(c, ok(txResponse(c.tx)))

\* the handler resumes with the row it read
Decide(p) ==
  LET c == calls[p] IN
  /\ c.pc = "decide"
  /\ calls' = [calls EXCEPT ![p] =
       CASE c.method = "CreateTransaction" -> handleCreate(c, clock)
         [] c.method = "PerformTransaction" -> handlePerform(c, clock)
         [] c.method = "CancelTransaction" -> handleCancel(c, clock)
         [] c.method = "CheckTransaction" -> handleCheck(c, clock)]
  /\ UNCHANGED <<donations, transactions, clock, ticks, ncalls>>

\* what the caller of autoCancelExpired does with the cancelled tx
afterAutoCancel(c) ==
  IF c.method = "PerformTransaction"
    THEN Respond(c, fail(ERR.CANNOT_PERFORM))
    ELSE Respond(c, ok(txResponse(c.tx)))

\* autoCancelExpired: await saveTransaction(tx); return tx
SaveExpired(p) ==
  LET c == calls[p] IN
  /\ c.pc = "saveExpired"
  /\ transactions' = saveTransaction(transactions, c.tx)
  /\ calls' = [calls EXCEPT ![p] = afterAutoCancel(c)]
  /\ UNCHANGED <<donations, clock, ticks, ncalls>>

\* await saveTransaction(tx) of handleCreate, handlePerform, handleCancel
SaveTransaction(p) ==
  LET c == calls[p] IN
  /\ c.pc = "saveTransaction"
  /\ transactions' = saveTransaction(transactions, c.tx)
  /\ calls' = [calls EXCEPT ![p].pc = "setDonationState"]
  /\ UNCHANGED <<donations, clock, ticks, ncalls>>

\* the state each handler gives the donation
donationStateOf(c) ==
  CASE c.method = "CreateTransaction" -> 1
    [] c.method = "PerformTransaction" -> 2
    [] OTHER -> c.tx.state

\* await setDonationState(...); return ok(res, id, txResponse(tx))
SetDonationState(p) ==
  LET c == calls[p] IN
  /\ c.pc = "setDonationState"
  /\ donations' = setDonationState(donations, c.tx.account, donationStateOf(c))
  /\ calls' = [calls EXCEPT ![p] = Respond(c, ok(txResponse(c.tx)))]
  /\ UNCHANGED <<transactions, clock, ticks, ncalls>>

\* handleStatement
ListTransactions(p) ==
  LET c == calls[p]
      ids == inRange(transactions, c.args[1], c.args[2])
  IN
  /\ c.pc = "listTransactions"
  /\ \E s \in Orderings(transactions, ids) :
       calls' = [calls EXCEPT ![p] =
         Respond(c, ok([transactions |->
           [i \in 1..Cardinality(ids) |->
              txResponse(rowToTx(s[i], transactions[s[i]]))]]))]
  /\ UNCHANGED <<donations, transactions, clock, ticks, ncalls>>

Step(p) ==
  \/ GetDonation(p)
  \/ GetTransaction(p)
  \/ Decide(p)
  \/ SaveExpired(p)
  \/ SaveTransaction(p)
  \/ SetDonationState(p)
  \/ ListTransactions(p)

\* requests are handled concurrently
Next ==
  \/ Tick
  \/ Donate({"d1"})
  \/ Begin(MaxCalls, RaceRequests)
  \/ \E p \in Procs : Step(p)

Spec == Init /\ [][Next]_vars

\* one request at a time: the next arrives after the response to the last
BeginSeq ==
  /\ \A p \in Procs : ~InFlight(p)
  /\ Begin(MaxSeqCalls, Requests)

NextSeq ==
  \/ Tick
  \/ Donate(DonationIds)
  \/ BeginSeq
  \/ \E p \in Procs : Step(p)

SpecSeq == Init /\ [][NextSeq]_vars

\* concurrent requests on one transaction, long enough to outlive its TTL
NextExpiry ==
  \/ Tick
  \/ Donate({"d1"})
  \/ Begin(MaxExpiryCalls, ExpiryRequests)
  \/ \E p \in Procs : Step(p)

SpecExpiry == Init /\ [][NextExpiry]_vars

\* one request at a time, over two transactions of one donation
BeginPay ==
  /\ \A p \in Procs : ~InFlight(p)
  /\ Begin(MaxPayCalls, PayRequests)

NextPay ==
  \/ Tick
  \/ Donate({"d1"})
  \/ BeginPay
  \/ \E p \in Procs : Step(p)

SpecPay == Init /\ [][NextPay]_vars

(* ======================================================================= *)
(*                               Properties                                *)
(* ======================================================================= *)
IsResult(c) == c.resp # null /\ c.resp.type = "result"
IsError(c, code) == c.resp # null /\ c.resp.type = "error" /\ c.resp.code = code
Snapshot(c) == c.resp.result
Quiescent == \A p \in Procs : ~InFlight(p)
Row(id) == transactions[id]

\* C1: two simultaneous PerformTransaction calls on one externalId make one
\* transition to Performed: both responses carry state 2 and the perform_time
\* of the persisted row, which the second caller does not overwrite.
C1_RacingPerformsAgree ==
  \A p \in Procs :
    LET a == calls[p]
        b == calls[Other(p)]
    IN (/\ Done(p) /\ Done(Other(p))
        /\ a.method = "PerformTransaction" /\ b.method = "PerformTransaction"
        /\ a.id = b.id
        /\ IsResult(a) /\ IsResult(b))
       => /\ Snapshot(a).state = 2 /\ Snapshot(b).state = 2
          /\ a.id \in DOMAIN transactions
          /\ Snapshot(a).perform_time = Row(a.id).perform_time
          /\ Snapshot(b).perform_time = Row(a.id).perform_time

\* C2: the persisted state only moves Created -> Performed, Created ->
\* CancelledBeforePerform, Performed -> CancelledAfterPerform, in every
\* interleaving of the calls.
Monotonic(s, t) ==
  \/ s = t
  \/ s = 1 /\ t \in {2, -1}
  \/ s = 2 /\ t = -2

C2_StateMonotonic ==
  [][\A id \in DOMAIN transactions :
       id \in DOMAIN transactions' /\ Monotonic(Row(id).state, transactions'[id].state)]_vars

\* C3: mutating calls on one externalId are linearizable: the responses of
\* two answered PerformTransaction / CancelTransaction calls and the row they
\* leave are those of the two calls run one after the other, in some order,
\* from some state of the row (0: no row), each before or after the TTL.
SerialStep(method, s, expired) ==
  IF s = 0 THEN <<0, ERR.NOT_FOUND>>
  ELSE IF method = "PerformTransaction"
    THEN IF s = 1 /\ expired THEN <<-1, ERR.CANNOT_PERFORM>>
         ELSE IF s < 0 THEN <<s, ERR.CANNOT_PERFORM>>
         ELSE <<2, 2>>
    ELSE IF s = 1 THEN <<-1, -1>>
         ELSE IF s = 2 THEN <<-2, -2>>
         ELSE <<s, s>>

Outcome(c) == IF IsResult(c) THEN Snapshot(c).state ELSE c.resp.code
Persisted(id) == IF id \in DOMAIN transactions THEN Row(id).state ELSE 0

SerialOrder(a, b) ==
  \E s0 \in {0, 1, 2, -1, -2}, ea \in BOOLEAN, eb \in BOOLEAN :
    LET ra == SerialStep(a.method, s0, ea)
        rb == SerialStep(b.method, ra[1], eb)
    IN /\ Outcome(a) = ra[2]
       /\ Outcome(b) = rb[2]
       /\ Persisted(a.id) = rb[1]

\* two calls that ran with no third call beside or between them
AlonePair(a, b) ==
  /\ a.pc = "done" /\ b.pc = "done"
  /\ a.auth /\ b.auth
  /\ a.prior = a.seq - 1
  /\ b.seq = a.seq + 1

C3_Linearizable ==
  \A p \in Procs :
    LET a == calls[p]
        b == calls[Other(p)]
        Mutating == {"PerformTransaction", "CancelTransaction"}
    IN (/\ AlonePair(a, b)
        /\ a.method \in Mutating /\ b.method \in Mutating
        /\ a.id = b.id)
       => SerialOrder(a, b) \/ SerialOrder(b, a)

(* ---------------------- one request after another ---------------------- *)
\* b arrived right after a was answered
Consecutive(a, b) ==
  /\ a.pc = "done" /\ a.auth /\ b.auth
  /\ b.seq = a.seq + 1
  /\ b.prior = a.seq

SameCreate(a, b) ==
  /\ a.method = "CreateTransaction" /\ b.method = "CreateTransaction"
  /\ a.id = b.id /\ a.donationId = b.donationId /\ a.amount = b.amount

\* a answered with a Created snapshot whose TTL window is still open
CreatedInWindow(a) ==
  /\ IsResult(a)
  /\ Snapshot(a).state = 1
  /\ clock <= Snapshot(a).create_time + TRANSACTION_TTL_MS

\* C4: two consecutive CreateTransaction calls with identical {id, account,
\* amount}, both inside the TTL window, return identical snapshots (same
\* create_time, state 1) and leave one row for the externalId, the one the
\* first call answered with.
C4_IdempotentCreate ==
  \A p \in Procs :
    LET a == calls[p]
        b == calls[Other(p)]
    IN (/\ Consecutive(a, b) /\ b.pc = "done"
        /\ SameCreate(a, b)
        /\ CreatedInWindow(a))
       => /\ b.resp = a.resp
          /\ a.id \in DOMAIN transactions
          /\ Row(a.id).state = 1
          /\ Row(a.id).create_time = Snapshot(a).create_time
          /\ Row(a.id).donation_id = a.donationId
          /\ Row(a.id).amount = a.amount

W_C4 ==
  \E p \in Procs :
    LET a == calls[p]
        b == calls[Other(p)]
    IN /\ Consecutive(a, b) /\ b.pc = "done"
       /\ SameCreate(a, b)
       /\ CreatedInWindow(a)
       /\ Snapshot(a).create_time < clock
       /\ IsResult(b)

\* C5: a CreateTransaction whose externalId, donation id and amount match an
\* existing transaction is answered with that transaction's snapshot and no
\* error, whatever state the transaction is in.
C5_RepeatReturnsSnapshot ==
  \A p \in Procs :
    LET c == calls[p]
    IN (/\ Done(p) /\ c.auth
        /\ c.method = "CreateTransaction"
        /\ c.seq = ncalls
        /\ c.id \in DOMAIN transactions
        /\ Row(c.id).donation_id = c.donationId
        /\ Row(c.id).amount = c.amount)
       => /\ IsResult(c)
          /\ Snapshot(c).transaction = c.id
          /\ Snapshot(c).state = Row(c.id).state

\* a CreateTransaction for an externalId whose row has another account or amount
Conflicts(c) ==
  /\ c.auth
  /\ c.method = "CreateTransaction"
  /\ c.id \in DOMAIN transactions
  /\ \/ Row(c.id).donation_id # c.donationId
     \/ Row(c.id).amount # c.amount

\* C6 as stated: when a transaction with the externalId exists, a
\* CreateTransaction with a different account or a different amount is
\* answered with CannotPerform (-31008) and the row is unchanged.
C6_ConflictIsCannotPerform ==
  \A p \in Procs :
    (Done(p) /\ calls[p].seq = ncalls /\ Conflicts(calls[p]))
      => IsError(calls[p], ERR.CANNOT_PERFORM)

\* C6 as amended: such a CreateTransaction is answered with an error and
\* writes nothing: Account (-31050) when the donation it names is unknown,
\* Amount (-31001) when its amount differs from that donation's amount,
\* CannotPerform (-31008) otherwise.
RejectionOf(c) ==
  IF c.donationId \notin DOMAIN donations THEN ERR.ACCOUNT
  ELSE IF donations[c.donationId].amount # c.amount THEN ERR.AMOUNT
  ELSE ERR.CANNOT_PERFORM

C6_ConflictRejected ==
  [][\A p \in Procs :
       (InFlight(p) /\ Conflicts(calls[p]) /\ calls'[p] # calls[p])
         => /\ transactions' = transactions
            /\ donations' = donations
            /\ calls'[p].pc = "done"
                 => calls'[p].resp = fail(RejectionOf(calls[p]))]_vars

W_C6 ==
  \E p \in Procs :
    /\ Done(p) /\ calls[p].seq = ncalls /\ Conflicts(calls[p])
    /\ Row(calls[p].id).donation_id # calls[p].donationId
    /\ IsError(calls[p], ERR.CANNOT_PERFORM)

\* the snapshot of a transaction that was cancelled for having expired
ShowsAutoCancel(a) ==
  /\ a.method \in {"CheckTransaction", "CancelTransaction"}
  /\ IsResult(a)
  /\ Snapshot(a).state = -1
  /\ Snapshot(a).reason = <<4>>
  /\ Snapshot(a).cancel_time # 0

\* C7: once a call has answered that a Created transaction past its TTL is
\* CancelledBeforePerform with reason 4 and a cancel_time, every
\* PerformTransaction on it that arrives later returns CannotPerform.
C7_ExpiredStaysCancelled ==
  \A p \in Procs :
    LET a == calls[p]
        b == calls[Other(p)]
    IN (/\ Done(p) /\ Done(Other(p))
        /\ ShowsAutoCancel(a)
        /\ b.method = "PerformTransaction" /\ b.id = a.id
        /\ b.prior = a.seq)
       => IsError(b, ERR.CANNOT_PERFORM)

\* C8: the state of a donation is the state of the transaction that
\* references it, whenever no request is being handled.
C8_DonationReflectsTransaction ==
  Quiescent =>
    \A id \in DOMAIN transactions :
      (\A other \in DOMAIN transactions :
         Row(other).donation_id = Row(id).donation_id => other = id)
        => donations[Row(id).donation_id].state = Row(id).state

\* C9: no donation is referenced by two transactions with distinct
\* externalIds that are both Created or Performed.
C9_OneLiveTransactionPerDonation ==
  \A i, j \in DOMAIN transactions :
    (/\ i # j
     /\ Row(i).donation_id = Row(j).donation_id
     /\ Row(i).state \in {1, 2})
      => Row(j).state \notin {1, 2}

\* C10: a PerformTransaction that follows an answered PerformTransaction on
\* the same transaction returns the same snapshot (state 2, the same
\* perform_time) and writes nothing to the transaction or the donation.
SecondPerform(a, b) ==
  /\ Consecutive(a, b)
  /\ a.method = "PerformTransaction" /\ b.method = "PerformTransaction"
  /\ a.id = b.id
  /\ IsResult(a)

C10_PerformTwice ==
  [][\A p \in Procs :
       LET a == calls[Other(p)]
           b == calls[p]
       IN (InFlight(p) /\ SecondPerform(a, b) /\ calls'[p] # calls[p])
          => /\ transactions' = transactions
             /\ donations' = donations
             /\ calls'[p].pc = "done"
                  => /\ calls'[p].resp = a.resp
                     /\ Snapshot(a).state = 2
                     /\ Snapshot(a).perform_time = Row(b.id).perform_time]_vars

W_C10 ==
  \E p \in Procs :
    LET a == calls[Other(p)]
        b == calls[p]
    IN /\ Done(p) /\ SecondPerform(a, b)
       /\ IsResult(b)
       /\ Snapshot(b).perform_time # 0
       /\ Snapshot(b).perform_time < clock

\* C11: a CancelTransaction on a Created transaction that has not expired
\* persists state -1, on a Performed transaction it persists -2 and keeps
\* perform_time; a CancelTransaction on a cancelled transaction, with any
\* reason, writes nothing and returns the snapshot of the row, the one the
\* preceding CancelTransaction returned.
CancelOf(c) ==
  /\ c.auth
  /\ c.method = "CancelTransaction"
  /\ c.id \in DOMAIN transactions

Cancelled(row, from, c) ==
  /\ row.state = (IF from.state = 2 THEN -2 ELSE -1)
  /\ row.cancel_time # 0
  /\ row.reason = <<c.reason>>
  /\ row.perform_time = from.perform_time
  /\ from.state = 2 => row.perform_time # 0
  /\ row.donation_id = from.donation_id
  /\ row.amount = from.amount
  /\ row.create_time = from.create_time

C11_Cancel ==
  [][\A p \in Procs :
       LET c == calls[p]
           a == calls[Other(p)]
           d == calls'[p]
       IN (InFlight(p) /\ CancelOf(c) /\ d # c)
          => /\ (c.pc = "decide" /\ c.tx # null
                   /\ (c.tx.state = 2 \/ (c.tx.state = 1 /\ ~isExpired(c.tx, clock))))
                  => d.pc = "saveTransaction"
             /\ (c.pc = "saveTransaction")
                  => Cancelled(transactions'[c.id], Row(c.id), c)
             /\ (c.pc = "setDonationState")
                  => /\ transactions' = transactions
                     /\ d.resp = ok(txResponse(rowToTx(c.id, Row(c.id))))
             /\ (Row(c.id).state \in {-1, -2} /\ c.pc # "setDonationState")
                  => /\ transactions' = transactions
                     /\ donations' = donations
                     /\ d.pc = "done"
                          => /\ d.resp = ok(txResponse(rowToTx(c.id, Row(c.id))))
                             /\ (Consecutive(a, c) /\ CancelOf(a) /\ a.id = c.id)
                                  => d.resp = a.resp]_vars

W_C11 ==
  \E p \in Procs :
    LET a == calls[Other(p)]
        b == calls[p]
    IN /\ Done(p) /\ Consecutive(a, b)
       /\ CancelOf(a) /\ CancelOf(b) /\ a.id = b.id
       /\ a.reason # b.reason
       /\ IsResult(b)
       /\ Snapshot(b).reason = <<a.reason>>
       /\ Snapshot(b).cancel_time < clock

\* C12: in every reachable state a row's perform_time is non-zero if and
\* only if the row is in state Performed or was in it earlier.  Stated step
\* by step: after every step, perform_time is non-zero exactly when the row
\* is Performed now, or was Performed or had a perform_time before the step.
C12_PerformTimeIffPerformed ==
  [][\A id \in DOMAIN transactions' :
       LET new == transactions'[id]
           was == /\ id \in DOMAIN transactions
                  /\ (Row(id).state = 2 \/ Row(id).perform_time # 0)
       IN (new.perform_time # 0) <=> (new.state = 2 \/ was)]_vars

\* C13: once a transaction row exists, no step of any call, in any
\* interleaving, removes it or changes its amount, donation id or
\* create_time.
C13_WriteOnce ==
  [][\A id \in DOMAIN transactions :
       /\ id \in DOMAIN transactions'
       /\ transactions'[id].amount = Row(id).amount
       /\ transactions'[id].donation_id = Row(id).donation_id
       /\ transactions'[id].create_time = Row(id).create_time]_vars

\* a racing CreateTransaction has saved over the row another one inserted
W_C13 ==
  \E p \in Procs :
    LET c == calls[p]
    IN /\ c.method = "CreateTransaction"
       /\ c.pc = "setDonationState"
       /\ c.id \in DOMAIN transactions
       /\ c.tx.create_time > Row(c.id).create_time

\* C14: CreateTransaction and CheckPerformTransaction are answered with the
\* Account error when the donation is unknown and with the Amount error when
\* the amount differs from the donation's, whether or not a transaction
\* exists for the externalId and before it is read; PerformTransaction,
\* CancelTransaction and CheckTransaction are answered with NotFound when no
\* transaction exists for the externalId, and create no row.
Validation(c) ==
  IF c.donationId \notin DOMAIN donations THEN ERR.ACCOUNT
  ELSE IF donations[c.donationId].amount # c.amount THEN ERR.AMOUNT
  ELSE 0

C14_ErrorPrecedence ==
  [][\A p \in Procs :
       LET c == calls[p]
           d == calls'[p]
       IN (InFlight(p) /\ d # c)
          => /\ (c.method \in {"CreateTransaction", "CheckPerformTransaction"}
                   /\ Validation(c) # 0)
                  => /\ c.tx = null
                     /\ d.pc = "done"
                     /\ d.resp = fail(Validation(c))
                     /\ transactions' = transactions
                     /\ donations' = donations
             /\ (c.method \in {"PerformTransaction", "CancelTransaction",
                               "CheckTransaction"}
                   /\ c.pc = "getTransaction"
                   /\ c.id \notin DOMAIN transactions)
                  => /\ d.pc = "decide" /\ d.tx = null
                     /\ transactions' = transactions
             /\ (c.method \in {"PerformTransaction", "CancelTransaction",
                               "CheckTransaction"}
                   /\ c.pc = "decide"
                   /\ c.tx = null)
                  => /\ d.pc = "done"
                     /\ d.resp = fail(ERR.NOT_FOUND)
                     /\ transactions' = transactions
                     /\ donations' = donations]_vars

\* a CreateTransaction for an existing externalId, answered with Account
W_C14 ==
  \E p \in Procs :
    LET c == calls[p]
    IN /\ Done(p) /\ c.auth
       /\ c.method = "CreateTransaction"
       /\ c.id \in DOMAIN transactions
       /\ IsError(c, ERR.ACCOUNT)
       /\ \E q \in Procs : IsError(calls[q], ERR.NOT_FOUND)

\* C15: a call answered with an error has written no donation and no
\* transaction row, except the PerformTransaction that auto-cancels an
\* expired Created transaction before it returns CannotPerform; an
\* unauthenticated call is answered with Auth on arrival, having read and
\* written nothing.  Step by step: a step that answers with an error writes
\* nothing (but for the auto-cancel), the steps before the first write do not
\* write, and a call that has written is answered with a result.
Wrote == transactions' # transactions \/ donations' # donations
AnsweredWithError(d) == d.pc = "done" /\ d.resp.type = "error"

C15_ErrorsWriteNothing ==
  [][\A p \in Procs :
       LET c == calls[p]
           d == calls'[p]
           autoCancel == /\ c.method = "PerformTransaction"
                         /\ c.pc = "saveExpired"
                         /\ d.resp = fail(ERR.CANNOT_PERFORM)
                         /\ donations' = donations
       IN (d # c)
          => /\ AnsweredWithError(d) => (~Wrote \/ autoCancel)
             /\ Wrote => c.pc \in {"saveExpired", "saveTransaction",
                                   "setDonationState"}
             /\ c.pc = "saveTransaction" => d.pc = "setDonationState"
             /\ c.pc = "setDonationState" => d.pc = "done" /\ IsResult(d)
             /\ (c.pc = "saveExpired" /\ c.method # "PerformTransaction")
                  => d.pc = "done" /\ IsResult(d)
             /\ ~d.auth
                  => /\ ~InFlight(p)
                     /\ d.pc = "done"
                     /\ d.resp = fail(ERR.AUTH)
                     /\ d.tx = null
                     /\ ~Wrote]_vars

\* an unauthenticated call, and a PerformTransaction answered CannotPerform
\* after it auto-cancelled the row
W_C15 ==
  \E p \in Procs :
    LET a == calls[Other(p)]
        b == calls[p]
    IN /\ Done(p) /\ Done(Other(p))
       /\ IsError(a, ERR.AUTH)
       /\ b.method = "PerformTransaction"
       /\ IsError(b, ERR.CANNOT_PERFORM)
       /\ b.tx # null /\ b.tx.reason = <<4>>
       /\ Row(b.id).state = -1

\* C16: GetStatement{from, to} returns exactly the persisted transactions
\* whose create_time lies in [from, to], for every pair of bounds including
\* from = 0 and to = 0, in ascending order of create_time, and leaves the
\* store as it is.
Listed(c) == Snapshot(c).transactions

C16_StatementIsTheRange ==
  \A p \in Procs :
    LET c == calls[p]
    IN (/\ Done(p) /\ c.auth
        /\ c.method = "GetStatement"
        /\ c.seq = ncalls)
       => /\ IsResult(c)
          /\ {Listed(c)[i].transaction : i \in DOMAIN Listed(c)}
               = {id \in DOMAIN transactions :
                    /\ Row(id).create_time >= c.from
                    /\ Row(id).create_time <= c.to}
          /\ \A i, j \in DOMAIN Listed(c) :
               i < j => /\ Listed(c)[i].transaction # Listed(c)[j].transaction
                        /\ Listed(c)[i].create_time <= Listed(c)[j].create_time
          /\ \A i \in DOMAIN Listed(c) :
               Listed(c)[i] = txResponse(rowToTx(Listed(c)[i].transaction,
                                                 Row(Listed(c)[i].transaction)))

\* C17: in every reachable state, interleaved calls included, a persisted
\* transaction has a non-zero cancel_time and a non-null reason exactly when
\* its state is -1 or -2; in states 1 and 2 cancel_time is 0 and reason is
\* null; in state -2 perform_time is non-zero.
C17_CancelFields ==
  \A id \in DOMAIN transactions :
    LET row == Row(id)
    IN /\ row.state \in {1, 2, -1, -2}
       /\ row.state \in {-1, -2} => row.cancel_time # 0 /\ row.reason # null
       /\ row.state \in {1, 2} => row.cancel_time = 0 /\ row.reason = null
       /\ row.state = -2 => row.perform_time # 0

\* a cancelled row that a stale PerformTransaction has overwritten, and the
\* other way round
W_C17 ==
  \E p \in Procs :
    LET a == calls[Other(p)]
        b == calls[p]
    IN /\ Done(p) /\ Done(Other(p))
       /\ a.method = "CancelTransaction" /\ b.method = "PerformTransaction"
       /\ a.id = b.id
       /\ IsResult(a) /\ IsResult(b)
       /\ Snapshot(a).state = -1 /\ Snapshot(b).state = 2
       /\ Row(a.id).state = 2

\* C18: no donation is paid twice: of the transactions that reference one
\* donation, at most one is ever Performed.  (A Performed row can only
\* become CancelledAfterPerform, so "was Performed" is state 2 or -2; the
\* calls here are CreateTransaction and PerformTransaction, one at a time.)
C18_PaidOnce ==
  \A i, j \in DOMAIN transactions :
    (/\ Row(i).donation_id = Row(j).donation_id
     /\ Row(i).state \in {2, -2}
     /\ Row(j).state \in {2, -2})
      => i = j

\* C19: when a call has auto-cancelled an expired Created transaction
\* (autoCancelExpired has saved it) and returns, the donation the transaction
\* references is in state CancelledBeforePerform (-1).
C19_AutoCancelReachesDonation ==
  [][\A p \in Procs :
       (calls[p].pc = "saveExpired" /\ calls'[p].pc = "done")
         => /\ transactions'[calls[p].id].state = -1
            /\ donations'[calls[p].tx.account].state = -1]_vars

\* C20: a successful CreateTransaction response carries the create_time
\* persisted for its externalId, also when two CreateTransaction calls with
\* the same parameters both read "no transaction" before either writes.
C20_CreateTimeIsPersisted ==
  \A p \in Procs :
    LET c == calls[p]
    IN (/\ Done(p) /\ c.auth
        /\ c.method = "CreateTransaction"
        /\ IsResult(c))
       => /\ c.id \in DOMAIN transactions
          /\ Snapshot(c).create_time = Row(c.id).create_time

====
